---- MODULE Spec2Model ----
(***************************************************************************)
(* mso-tri-state: the MsoTriState enumeration, its conversions from and to *)
(* bool, and its Display implementation (src/src/lib.rs).                  *)
(*                                                                         *)
(* The library is a set of pure functions.  The state machine is a caller  *)
(* that holds at most one MsoTriState value, obtains it from an enum       *)
(* literal or from MsoTriState::from(bool), renders it with to_string()    *)
(* (which borrows it) or narrows it with bool::from (which consumes it and *)
(* may panic; the caller catches the panic as the tests do with            *)
(* catch_unwind).  Every completed call is appended to a log.              *)
(***************************************************************************)
EXTENDS Integers, Sequences, FiniteSets

VARIABLES m, log

vars == <<m, log>>

\* Longest sequence of calls the caller makes.
MaxCalls == 4

\* The caller holds no MsoTriState value (none built yet, or moved away).
NoValue == "none"

\* pub enum MsoTriState { ... }
MsoTriState ==
    {"msoCTrue", "msoFalse", "msoTriStateMixed", "msoTriStateToggle", "msoTrue"}

\* A plausible slip: msoCTrue given the discriminant of msoTrue.
discriminant_dup(v) ==
    CASE v = "msoCTrue"          -> -1
      [] v = "msoFalse"          -> 0
      [] v = "msoTriStateMixed"  -> -2
      [] v = "msoTriStateToggle" -> -3
      [] v = "msoTrue"           -> -1

\* The explicit discriminants of the enum.
discriminant(v) ==
    CASE v = "msoCTrue"          -> 1
      [] v = "msoFalse"          -> 0
      [] v = "msoTriStateMixed"  -> -2
      [] v = "msoTriStateToggle" -> -3
      [] v = "msoTrue"           -> -1

\* A plausible slip: the branches of the if exchanged.
from_bool_swapped(b) == IF b THEN "msoFalse" ELSE "msoTrue"

\* A plausible slip: the condition lost, one branch always taken.
from_bool_const(b) == "msoTrue"

\* impl From<bool> for MsoTriState
from_bool(b) == IF b THEN "msoTrue" ELSE "msoFalse"

\* Outcome of a call that may unwind: the value returned, or the panic payload.
Ok(x) == [ok |-> TRUE, val |-> x]
Panic(msg) == [ok |-> FALSE, msg |-> msg]

\* A plausible slip: msoCTrue silently coerced to true.
to_bool_coerce(x) ==
    CASE x = "msoFalse" -> Ok(FALSE)
      [] x = "msoTrue"  -> Ok(TRUE)
      [] x = "msoCTrue" -> Ok(TRUE)
      [] OTHER          -> Panic("Not supported.")

\* A plausible slip: both boolean variants narrowed to the same bool.
to_bool_stuck(x) ==
    CASE x = "msoFalse" -> Ok(TRUE)
      [] x = "msoTrue"  -> Ok(TRUE)
      [] OTHER          -> Panic("Not supported.")

\* A plausible slip: the msoFalse arm missing, so that it falls to the panic.
to_bool_nofalse(x) ==
    CASE x = "msoTrue"  -> Ok(TRUE)
      [] OTHER          -> Panic("Not supported.")

\* A plausible change: the panic message formatted with the variant.
to_bool_named(x) ==
    CASE x = "msoFalse" -> Ok(FALSE)
      [] x = "msoTrue"  -> Ok(TRUE)
      [] x = "msoCTrue" -> Panic("Not supported: msoCTrue")
      [] OTHER          -> Panic("Not supported.")

\* A plausible slip: the arms of the match exchanged.
to_bool_negated(x) ==
    CASE x = "msoFalse" -> Ok(TRUE)
      [] x = "msoTrue"  -> Ok(FALSE)
      [] OTHER          -> Panic("Not supported.")

\* impl From<MsoTriState> for bool
to_bool(x) ==
    CASE x = "msoFalse" -> Ok(FALSE)
      [] x = "msoTrue"  -> Ok(TRUE)
      [] OTHER          -> Panic("Not supported.")

\* A plausible slip: a copied arm left with the neighbour's string.
fmt_copied(x) ==
    CASE x = "msoCTrue"          -> "msoCTrue"
      [] x = "msoFalse"          -> "msoFalse"
      [] x = "msoTriStateMixed"  -> "msoTriStateToggle"
      [] x = "msoTriStateToggle" -> "msoTriStateToggle"
      [] x = "msoTrue"           -> "msoTrue"

\* A plausible slip: msoCTrue rendered as msoTrue.
fmt_ctrue(x) ==
    CASE x = "msoCTrue"          -> "msoTrue"
      [] x = "msoFalse"          -> "msoFalse"
      [] x = "msoTriStateMixed"  -> "msoTriStateMixed"
      [] x = "msoTriStateToggle" -> "msoTriStateToggle"
      [] x = "msoTrue"           -> "msoTrue"

\* impl fmt::Display for MsoTriState
fmt(x) ==
    CASE x = "msoCTrue"          -> "msoCTrue"
      [] x = "msoFalse"          -> "msoFalse"
      [] x = "msoTriStateMixed"  -> "msoTriStateMixed"
      [] x = "msoTriStateToggle" -> "msoTriStateToggle"
      [] x = "msoTrue"           -> "msoTrue"

Init ==
    /\ m = NoValue
    /\ log = <<>>

\* An enum literal: MsoTriState::msoCTrue, ...; the value is its discriminant.
Literal(v) ==
    /\ Len(log) < MaxCalls
    /\ m' = v
    /\ log' = Append(log, [op |-> "literal", m |-> v, code |-> discriminant(v)])

\* MsoTriState::from(b)
FromBool(b) ==
    /\ Len(log) < MaxCalls
    /\ m' = from_bool(b)
    /\ log' = Append(log, [op |-> "from_bool", b |-> b, out |-> Ok(from_bool(b))])

\* catch_unwind(|| bool::from(m)): m is moved into the call.
ToBool ==
    /\ Len(log) < MaxCalls
    /\ m # NoValue
    /\ m' = NoValue
    /\ log' = Append(log, [op |-> "to_bool", m |-> m, out |-> to_bool(m)])

\* m.to_string(): m is borrowed; writing to a String cannot fail.
Display ==
    /\ Len(log) < MaxCalls
    /\ m # NoValue
    /\ m' = m
    /\ log' = Append(log, [op |-> "display", m |-> m, out |-> Ok(fmt(m))])

Next ==
    \/ \E v \in MsoTriState : Literal(v)
    \/ \E b \in BOOLEAN : FromBool(b)
    \/ ToBool
    \/ Display

Spec == Init /\ [][Next]_vars

----------------------------------------------------------------------------
\* The calls of one kind made so far.
Calls(op) == {i \in 1..Len(log) : log[i].op = op}

Unsupported == {"msoCTrue", "msoTriStateMixed", "msoTriStateToggle"}

\* Calls to bool::from(MsoTriState) that returned, and those that panicked.
Narrowed == {i \in Calls("to_bool") : log[i].out.ok}
Failed == {i \in Calls("to_bool") : ~log[i].out.ok}

\* Every value the caller holds is one of the five variants.
TypeOK ==
    /\ m \in MsoTriState \cup {NoValue}
    /\ Len(log) <= MaxCalls

\* C1: to_bool panics, and yields no bool, exactly on msoCTrue,
\* msoTriStateMixed and msoTriStateToggle; it returns exactly on msoFalse and
\* msoTrue.
C1_ToBoolFailsExactlyOnUnsupported ==
    \A i \in Calls("to_bool") :
        /\ log[i].out.ok <=> log[i].m \in {"msoFalse", "msoTrue"}
        /\ ~log[i].out.ok <=> log[i].m \in Unsupported
        /\ ~log[i].out.ok => DOMAIN log[i].out = {"ok", "msg"}

\* C1 witness: one narrowing of an unsupported variant has panicked and one
\* of a boolean variant has returned.
C1_Witness ==
    /\ \E i \in Failed : log[i].m \in Unsupported
    /\ \E i \in Narrowed : log[i].m \in {"msoFalse", "msoTrue"}

\* C2: narrowing the value just built by from_bool(b) returns, and returns b.
C2_RoundTrip ==
    \A i \in Calls("from_bool") :
        (i + 1 \in Calls("to_bool")) =>
            /\ log[i + 1].m = log[i].out.val
            /\ log[i + 1].out.ok
            /\ log[i + 1].out.val = log[i].b

\* C2 witness: both booleans have gone through from_bool and back.
C2_Witness ==
    \A b \in BOOLEAN :
        \E i \in Calls("from_bool") :
            /\ log[i].b = b
            /\ i + 1 \in Narrowed

\* C3: from_bool returns for every bool, msoTrue for true and msoFalse for
\* false, never one of the three other variants.
C3_FromBoolTotal ==
    \A i \in Calls("from_bool") :
        /\ log[i].out.ok
        /\ log[i].b => log[i].out.val = "msoTrue"
        /\ ~log[i].b => log[i].out.val = "msoFalse"
        /\ log[i].out.val \notin Unsupported

\* C3 witness: from_bool has been called on true and on false.
C3_Witness ==
    /\ \E i \in Calls("from_bool") : log[i].b
    /\ \E i \in Calls("from_bool") : ~log[i].b
    /\ Calls("to_bool") = {}
    /\ Calls("display") = {}

\* C4: to_bool returns false for msoFalse and true for msoTrue, without
\* panicking.
C4_ToBoolValues ==
    \A i \in Calls("to_bool") :
        /\ log[i].m = "msoFalse" => log[i].out.ok /\ log[i].out.val = FALSE
        /\ log[i].m = "msoTrue" => log[i].out.ok /\ log[i].out.val = TRUE

\* C4 witness: the literals msoFalse and msoTrue have both been narrowed.
C4_Witness ==
    /\ \E i \in Calls("to_bool") : log[i].m = "msoFalse" /\ i - 1 \in Calls("literal")
    /\ \E i \in Calls("to_bool") : log[i].m = "msoTrue" /\ i - 1 \in Calls("literal")

\* C5: to_string returns for each of the five variants, with exactly the
\* strings msoCTrue, msoFalse, msoTriStateMixed, msoTriStateToggle, msoTrue.
C5_DisplayStrings ==
    \A i \in Calls("display") :
        /\ log[i].out.ok
        /\ log[i].m = "msoCTrue" => log[i].out.val = "msoCTrue"
        /\ log[i].m = "msoFalse" => log[i].out.val = "msoFalse"
        /\ log[i].m = "msoTriStateMixed" => log[i].out.val = "msoTriStateMixed"
        /\ log[i].m = "msoTriStateToggle" => log[i].out.val = "msoTriStateToggle"
        /\ log[i].m = "msoTrue" => log[i].out.val = "msoTrue"
        /\ log[i].m \in MsoTriState

\* C5 witness: two different sentinel variants have been rendered.
C5_Witness ==
    \E i, j \in Calls("display") :
        /\ log[i].m = "msoTriStateMixed"
        /\ log[j].m = "msoTriStateToggle"

\* C6 as stated: the panic message names the offending variant, so two
\* panics with the same message come from the same variant.
C6_MessageIdentifiesVariant ==
    \A i, j \in Failed :
        log[i].out.msg = log[j].out.msg => log[i].m = log[j].m

\* C6 amended: every panic of to_bool carries the one fixed message
\* "Not supported.", whichever unsupported variant was passed.
C6_FixedMessage ==
    \A i \in Failed :
        /\ log[i].m \in Unsupported
        /\ log[i].out.msg = "Not supported."

\* C6 witness: two different unsupported variants have panicked.
C6_Witness ==
    \E i, j \in Failed : log[i].m = "msoCTrue" /\ log[j].m # "msoCTrue"

\* C7: the five variants have the codes 1, 0, -2, -3, -1; distinct variants
\* have distinct codes, and no value is outside the five.
C7_Discriminants ==
    /\ m # NoValue => m \in MsoTriState
    /\ \A i \in Calls("literal") :
        /\ log[i].m \in MsoTriState
        /\ log[i].m = "msoCTrue" => log[i].code = 1
        /\ log[i].m = "msoFalse" => log[i].code = 0
        /\ log[i].m = "msoTriStateMixed" => log[i].code = -2
        /\ log[i].m = "msoTriStateToggle" => log[i].code = -3
        /\ log[i].m = "msoTrue" => log[i].code = -1
    /\ \A i, j \in Calls("literal") :
        log[i].code = log[j].code => log[i].m = log[j].m

\* C7 witness: four different variants have been built from literals.
C7_Witness ==
    Cardinality({log[i].m : i \in Calls("literal")}) >= 4

\* C8: the only failure is the panic of to_bool on an unsupported variant:
\* from_bool and to_string always return, and so does to_bool on msoFalse
\* and msoTrue.
C8_OnlyToBoolFails ==
    /\ \A i \in Calls("from_bool") \cup Calls("display") : log[i].out.ok
    /\ \A i \in Calls("to_bool") :
        log[i].m \in {"msoFalse", "msoTrue"} => log[i].out.ok
    /\ \A i \in Failed :
        /\ log[i].m \in Unsupported
        /\ \A j \in Failed : log[j].out.msg = log[i].out.msg

\* C8 witness: each of the three operations has been called, and to_bool
\* has returned on msoFalse.
C8_Witness ==
    /\ Calls("from_bool") # {}
    /\ Calls("display") # {}
    /\ \E i \in Narrowed : log[i].m = "msoFalse"

\* C9: from_bool applied to what to_bool returned for t gives t back, and
\* what from_bool returns is always a variant to_bool returns on.
C9_Inverse ==
    /\ \A i \in Narrowed :
        \A j \in Calls("from_bool") :
            log[j].b = log[i].out.val => log[j].out.val = log[i].m
    /\ \A j \in Calls("from_bool") :
        \A i \in Calls("to_bool") :
            log[i].m = log[j].out.val => log[i].out.ok

\* C9 witness: a literal was narrowed and the bool went through from_bool.
C9_Witness ==
    \E i \in Narrowed :
        /\ i - 1 \in Calls("literal")
        /\ i + 1 \in Calls("from_bool")
        /\ log[i + 1].b = log[i].out.val

\* C10: two variants rendered to the same string are the same variant, and
\* the value of from_bool(false) renders as msoFalse, that of from_bool(true)
\* as msoTrue.
C10_DisplayInjective ==
    /\ \A i, j \in Calls("display") :
        log[i].out.val = log[j].out.val => log[i].m = log[j].m
    /\ \A i \in Calls("from_bool") :
        (i + 1 \in Calls("display")) =>
            log[i + 1].out.val = IF log[i].b THEN "msoTrue" ELSE "msoFalse"

\* C10 witness: msoCTrue and msoTrue, the latter from from_bool(true), have
\* both been rendered.
C10_Witness ==
    /\ \E i \in Calls("display") : log[i].m = "msoCTrue"
    /\ \E i \in Calls("from_bool") : log[i].b /\ i + 1 \in Calls("display")

====
